---- MODULE Spec2Model ----
(***************************************************************************)
(* The Hallway Protocol orchestrator (src/hallway/hallway.py) and the      *)
(* v0.1 -> v0.2 upcaster (src/hallway/upcaster.py) as a state machine.     *)
(*                                                                         *)
(* One run of HallwayOrchestrator.run is followed stage by stage: the      *)
(* gate chain is evaluated for the room at the loop position, then one of  *)
(* the three branches of the loop body appends an envelope.  Gates are     *)
(* external collaborators: each evaluation draws its verdicts freely, so   *)
(* any dependence of a gate on the room, the session reference or the      *)
(* payload is covered.                                                     *)
(*                                                                         *)
(* Python values are modelled as tagged records: Str, Bool, List, Dict.    *)
(* A Dict keeps its pairs in insertion order, as a Python dict does.       *)
(*                                                                         *)
(* Spec follows one call of run.  SpecUpcast calls the upcaster on its own *)
(* on legacy outputs drawn from a bounded set.  hallway/audit.py and       *)
(* hallway/gates.py are described by the specification only; the rooms'    *)
(* business logic is an external collaborator (room_logic).                *)
(***************************************************************************)
EXTENDS Integers, Sequences, FiniteSets, TLC

----------------------------------------------------------------------------
(* Bounds of the model *)

MaxSeq == 3
MaxChain == 2
MaxSubset == 2
MaxKeys == 2

----------------------------------------------------------------------------
(* Python values *)

None == [kind |-> "none"]
Str(s) == [kind |-> "str", s |-> s]
Bool(b) == [kind |-> "bool", b |-> b]
List(items) == [kind |-> "list", items |-> items]
Dict(pairs) == [kind |-> "dict", pairs |-> pairs]

\* key in d
HasKey(d, k) == \E i \in 1..Len(d.pairs) : d.pairs[i][1] = k

\* d[key], for a key that is present
Get(d, k) == d.pairs[CHOOSE i \in 1..Len(d.pairs) : d.pairs[i][1] = k][2]

\* The keys the modelled outputs use, in the order sorted() gives them.
SortedKeys ==
    << "allow", "dry_run", "error", "gate", "gate_decisions", "next_action",
       "room_id", "session_state_ref", "status" >>

----------------------------------------------------------------------------
(* hallway/audit.py: canonical serialisation and digests *)

RECURSIVE canonical_json(_)
RECURSIVE JoinItems(_, _)
RECURSIVE JoinPairs(_, _, _)

\* The items of a list, serialised and separated by commas.
JoinItems(items, i) ==
    IF i > Len(items) THEN ""
    ELSE canonical_json(items[i])
         \o (IF i < Len(items) THEN "," ELSE "")
         \o JoinItems(items, i + 1)

\* The pairs of a dict in sorted key order: k ranges over SortedKeys.
JoinPairs(d, k, first) ==
    IF k > Len(SortedKeys) THEN ""
    ELSE IF HasKey(d, SortedKeys[k])
         THEN (IF first THEN "" ELSE ",")
              \o "\"" \o SortedKeys[k] \o "\":"
              \o canonical_json(Get(d, SortedKeys[k]))
              \o JoinPairs(d, k + 1, FALSE)
         ELSE JoinPairs(d, k + 1, first)

canonical_json(v) ==
    CASE v.kind = "none" -> "null"
      [] v.kind = "bool" -> (IF v.b THEN "true" ELSE "false")
      [] v.kind = "str"  -> "\"" \o v.s \o "\""
      [] v.kind = "list" -> "[" \o JoinItems(v.items, 1) \o "]"
      [] v.kind = "dict" -> "{" \o JoinPairs(v, 1, TRUE) \o "}"

\* SHA-256 as a collision-free digest: the hex string stands for its input.
sha256_hex(s) == [sha256 |-> s]

compute_step_hash(room_output) == sha256_hex(canonical_json(room_output))

build_audit_chain(step_list) ==
    [i \in 1..Len(step_list) |-> step_list[i].audit.step_hash]

----------------------------------------------------------------------------
(* hallway/upcaster.py *)

\* The audit object (lines 39-43)
audit_object(step_hash, prev_hash, rcv) ==
    [ step_hash |-> step_hash,
      prev_hash |-> prev_hash,
      room_contract_version |-> rcv ]

\* Mutant: every envelope gets a decline object.
decline_object_for_any_status(status) ==
    [ reason |-> "gate_denied_or_room_decline",
      message |-> "See gate_decisions and data for details",
      details |-> Dict(<<>>) ]

\* The decline object (lines 52-58): null unless status == "decline"
decline_object(status) ==
    IF status = "decline"
    THEN [ reason |-> "gate_denied_or_room_decline",
           message |-> "See gate_decisions and data for details",
           details |-> Dict(<<>>) ]
    ELSE None

\* The diagnostics digest (line 68)
digest_of(out, digest) ==
    IF digest # None THEN digest
    ELSE [prefix |-> "sha256:", hex |-> sha256_hex(canonical_json(out))]

\* The v0.2 StepResult envelope (lines 61-71)
StepResult(rid, status, data, gds, digest, audit, decline) ==
    [ contract_version |-> "0.2.0",
      room_id |-> rid,
      status |-> status,
      data |-> data,
      invariants |-> [deterministic |-> TRUE, no_partial_write |-> TRUE],
      gate_decisions |-> gds,
      diagnostics_digest |-> digest,
      audit |-> audit,
      decline |-> decline ]

\* Mutant: the envelope does not record the previous hash it was given.
upcast_forgets_prev_hash(rid, out, status, gds, prev_hash, digest, rcv) ==
    StepResult(rid, status, out, gds, digest_of(out, digest),
               audit_object(compute_step_hash(out), None, rcv),
               decline_object(status))

\* Mutant: the step hash covers the previous hash too, as in a chained hash.
upcast_hashes_prev_hash(rid, out, status, gds, prev_hash, digest, rcv) ==
    StepResult(rid, status, out, gds, digest_of(out, digest),
               audit_object(sha256_hex(<< canonical_json(out), prev_hash >>),
                            prev_hash, rcv),
               decline_object(status))

\* Mutant: the step hash digests the legacy output's pairs in insertion order.
upcast_hashes_insertion_order(rid, out, status, gds, prev_hash, digest, rcv) ==
    StepResult(rid, status, out, gds, digest_of(out, digest),
               audit_object(sha256_hex(out.pairs), prev_hash, rcv),
               decline_object(status))

\* Mutant: the envelope's data is the legacy output with the room id added.
upcast_adds_room_id(rid, out, status, gds, prev_hash, digest, rcv) ==
    StepResult(rid, status, Dict(Append(out.pairs, <<"room_id", Str(rid)>>)),
               gds, digest_of(out, digest),
               audit_object(compute_step_hash(out), prev_hash, rcv),
               decline_object(status))

\* Arguments: room_id, room_output_v01, status, gate_decisions, prev_hash,
\* diagnostics_digest, room_contract_version.
upcast_v01_to_v02(rid, out, status, gds, prev_hash, digest, rcv) ==
    StepResult(rid, status, out, gds, digest_of(out, digest),
               audit_object(compute_step_hash(out), prev_hash, rcv),
               decline_object(status))

downcast_v02_to_v01(step_result_v02) == step_result_v02.data

verify_roundtrip(room_output_v01, step_result_v02) ==
    canonical_json(room_output_v01)
        = canonical_json(downcast_v02_to_v01(step_result_v02))

----------------------------------------------------------------------------
(* hallway/gates.py: the gate chain *)

GateNames == << "coherence_gate", "pace_gate", "consent_gate", "integrity_gate" >>

\* GateDecision.to_dict()
to_dict(gate, allow) == Dict(<< <<"gate", Str(gate)>>, <<"allow", Bool(allow)>> >>)

\* Mutant: the chain stops consulting gates at the first denial.
evaluate_gate_chain_short_circuit(chain, verdicts) ==
    LET n == IF \A i \in 1..Len(chain) : verdicts[i]
             THEN Len(chain)
             ELSE CHOOSE i \in 1..Len(chain) :
                      ~verdicts[i] /\ \A j \in 1..(i - 1) : verdicts[j]
    IN  [ decisions |-> [i \in 1..n |-> to_dict(chain[i], verdicts[i])],
          passed |-> \A i \in 1..n : verdicts[i] ]

\* evaluate_gate_chain(chain, room_id, session_state_ref, payload, gates), each
\* gate of the chain having answered verdicts[i]: every gate is consulted, in
\* chain order, and the chain passes when every verdict allows.
evaluate_gate_chain(chain, verdicts) ==
    [ decisions |-> [i \in 1..Len(chain) |-> to_dict(chain[i], verdicts[i])],
      passed |-> \A i \in 1..Len(chain) : verdicts[i] ]

----------------------------------------------------------------------------
(* hallway/hallway.py: HallwayOrchestrator *)

RoomNames ==
    << "entry_room", "walk_room", "exit_room", "memory_room",
       "integration_commit_room" >>

\* A Stage Identifier that no configured sequence holds.
UnknownRoom == "unknown_room"

\* The Stage Identifiers a rooms_subset is drawn from: two of the canonical
\* names, in a sequence or not according to its length, and the unknown one.
SubsetRooms == { RoomNames[1], RoomNames[2], UnknownRoom }

\* final_state_ref before run binds it (line 63): a string no caller passes
Unbound == "<unbound>"

SessionRefs == { "sess-1", "", "  ", " sess-1 ", "invalid-session-ref" }

\* The session reference of the runs that walk the rooms
WalkRefs == { "sess-1" }

\* str.strip() on the session references of the model
strip(s) ==
    CASE s = "  " -> ""
      [] s = " sess-1 " -> "sess-1"
      [] OTHER -> s

\* All sequences over S of length 0..n
SeqsUpTo(S, n) == UNION { [1..k -> S] : k \in 0..n }

Range(f) == { f[i] : i \in DOMAIN f }

VARIABLES
    contract,           \* self.contract
    session_state_ref,  \* argument of run
    options,            \* argument of run, defaults applied
    pc,                 \* position of run: "call", "loop", "gated", "returned", "raised"
    rooms_to_run,       \* local of run
    pos,                \* index in rooms_to_run of the room the for loop is at
    gate_decisions,     \* local of run: gate_decisions_dict of the current room
    gates_passed,       \* local of run
    steps,              \* local of run
    last_hash,          \* local of run
    final_state_ref,    \* local of run
    gate_calls,         \* the calls made to evaluate_gate_chain and what they returned
    result,             \* what run returned or raised; None while it runs
    probe               \* the upcaster called on its own: inputs and results

vars ==
    << contract, session_state_ref, options, pc, rooms_to_run, pos,
       gate_decisions, gates_passed, steps, last_hash, final_state_ref,
       gate_calls, result, probe >>

\* __init__: self.sequence and self.gate_profile
sequence == contract.sequence
gate_profile == contract.gate_profile

Contracts ==
    { [ sequence |-> SubSeq(RoomNames, 1, n),
        gate_profile |-> [chain |-> SubSeq(GateNames, 1, c), overrides |-> Dict(<<>>)],
        stone_alignment |-> << "deterministic" >>,
        mini_walk_supported |-> TRUE ] : n \in 0..MaxSeq, c \in 0..MaxChain }

Options ==
    [ stop_on_decline : BOOLEAN,
      dry_run : BOOLEAN,
      mini_walk : BOOLEAN,
      rooms_subset : SeqsUpTo(SubsetRooms, MaxSubset) ]

InitRun(refs) ==
    /\ contract \in Contracts
    /\ session_state_ref \in refs
    /\ options \in Options
    /\ pc = "call"
    /\ probe = None
    /\ rooms_to_run = << >>
    /\ pos = 0
    /\ gate_decisions = << >>
    /\ gates_passed = FALSE
    /\ steps = << >>
    /\ last_hash = None
    /\ final_state_ref = Unbound
    /\ gate_calls = << >>
    /\ result = None

Init == InitRun(WalkRefs)

\* Mutant: only the first entry of the subset is validated.
missing_room_first_only(rooms_subset) ==
    IF rooms_subset[1] \notin Range(sequence) THEN 1 ELSE 0

\* _determine_rooms_to_run, lines 186-188: the position of the first entry of
\* the subset that is not in the sequence, 0 when every entry is
missing_room(rooms_subset) ==
    IF \E i \in 1..Len(rooms_subset) : rooms_subset[i] \notin Range(sequence)
    THEN CHOOSE i \in 1..Len(rooms_subset) :
             /\ rooms_subset[i] \notin Range(sequence)
             /\ \A j \in 1..(i - 1) : rooms_subset[j] \in Range(sequence)
    ELSE 0

\* Mutant: the first two rooms instead of the first and the last.
mini_walk_first_two ==
    IF Len(sequence) >= 2 THEN << sequence[1], sequence[2] >> ELSE sequence

\* _determine_rooms_to_run, lines 192-195: the rooms of a mini-walk
mini_walk_rooms ==
    IF Len(sequence) >= 2
    THEN << sequence[1], sequence[Len(sequence)] >>
    ELSE sequence

\* Mutant: a valid subset is run in the order of the canonical sequence.
determine_rooms_in_canonical_order(rooms_subset, mini_walk) ==
    IF rooms_subset # << >>
    THEN IF missing_room(rooms_subset) # 0
         THEN [ raised |-> "ValueError",
                message |-> "Room '" \o rooms_subset[missing_room(rooms_subset)]
                            \o "' not found in canonical sequence" ]
         ELSE [ raised |-> "",
                rooms |-> SelectSeq(sequence,
                                    LAMBDA r : r \in Range(rooms_subset)) ]
    ELSE IF mini_walk
         THEN [ raised |-> "", rooms |-> mini_walk_rooms ]
         ELSE [ raised |-> "", rooms |-> sequence ]

\* _determine_rooms_to_run: the rooms, or the ValueError it raises
_determine_rooms_to_run(rooms_subset, mini_walk) ==
    IF rooms_subset # << >>
    THEN IF missing_room(rooms_subset) # 0
         THEN [ raised |-> "ValueError",
                message |-> "Room '" \o rooms_subset[missing_room(rooms_subset)]
                            \o "' not found in canonical sequence" ]
         ELSE [ raised |-> "", rooms |-> rooms_subset ]
    ELSE IF mini_walk
         THEN [ raised |-> "", rooms |-> mini_walk_rooms ]
         ELSE [ raised |-> "", rooms |-> sequence ]

\* Mutant: a next_action of "later" is not a decline.
is_room_decline_hold_only(room_output) ==
    \/ HasKey(room_output, "error")
    \/ /\ HasKey(room_output, "status")
       /\ Get(room_output, "status") = Str("decline")
    \/ /\ HasKey(room_output, "next_action")
       /\ Get(room_output, "next_action") = Str("hold")

\* _is_room_decline
_is_room_decline(room_output) ==
    \/ HasKey(room_output, "error")
    \/ /\ HasKey(room_output, "status")
       /\ Get(room_output, "status") = Str("decline")
    \/ /\ HasKey(room_output, "next_action")
       /\ Get(room_output, "next_action") \in { Str("hold"), Str("later") }

\* Mutant: every exit summary says completed.
exit_summary_always_completed(completed, decline, step_list) ==
    [ completed |-> TRUE,
      decline |-> decline,
      auditable_hash_chain |-> build_audit_chain(step_list) ]

\* Mutant: a walk in which a stage declined is never reported completed.
exit_summary_incomplete_on_decline(completed, decline, step_list) ==
    [ completed |-> completed /\ \A i \in 1..Len(step_list) :
                                    step_list[i].status # "decline",
      decline |-> decline,
      auditable_hash_chain |-> build_audit_chain(step_list) ]

\* Mutant: the audit chain leaves out the hashes of decline envelopes.
exit_summary_chain_of_ok_steps(completed, decline, step_list) ==
    [ completed |-> completed,
      decline |-> decline,
      auditable_hash_chain |->
          build_audit_chain(SelectSeq(step_list, LAMBDA e : e.status = "ok")) ]

\* _build_exit_summary
_build_exit_summary(completed, decline, step_list) ==
    [ completed |-> completed,
      decline |-> decline,
      auditable_hash_chain |-> build_audit_chain(step_list) ]

\* Mutant: only the empty reference is replaced by the sentinel.
valid_session_ref_unless_empty(ref) ==
    IF ref # "" THEN ref ELSE "invalid-session-ref"

\* _build_hallway_output, line 277: the reference the report shows
valid_session_ref(ref) ==
    IF ref # "" /\ strip(ref) # "" THEN ref ELSE "invalid-session-ref"

\* Mutant: assembling the report clears the prev_hash of every envelope.
hallway_output_unlinks_steps(step_list, ref, exit_summary) ==
    LET valid_ref == valid_session_ref(ref)
    IN  [ room_id |-> "hallway",
          title |-> "Hallway",
          version |-> "0.2.0",
          purpose |-> "Deterministic multi-room session orchestrator",
          stone_alignment |-> contract.stone_alignment,
          sequence |-> sequence,
          mini_walk_supported |-> contract.mini_walk_supported,
          gate_profile |-> gate_profile,
          inputs |-> [ session_state_ref |-> valid_ref,
                       payloads |-> Dict(<<>>),
                       options |-> Dict(<<>>) ],
          outputs |-> [ contract_version |-> "0.2.0",
                        steps |-> [ i \in 1..Len(step_list) |->
                                     [ step_list[i] EXCEPT
                                           !.audit.prev_hash = None ] ],
                        final_state_ref |-> valid_ref,
                        exit_summary |-> exit_summary ] ]

\* Mutant: the inputs block of the report shows the reference passed to run.
hallway_output_keeps_input_ref(step_list, ref, exit_summary) ==
    LET valid_ref == valid_session_ref(ref)
    IN  [ room_id |-> "hallway",
          title |-> "Hallway",
          version |-> "0.2.0",
          purpose |-> "Deterministic multi-room session orchestrator",
          stone_alignment |-> contract.stone_alignment,
          sequence |-> sequence,
          mini_walk_supported |-> contract.mini_walk_supported,
          gate_profile |-> gate_profile,
          inputs |-> [ session_state_ref |-> session_state_ref,
                       payloads |-> Dict(<<>>),
                       options |-> Dict(<<>>) ],
          outputs |-> [ contract_version |-> "0.2.0",
                        steps |-> step_list,
                        final_state_ref |-> valid_ref,
                        exit_summary |-> exit_summary ] ]

\* _build_hallway_output
_build_hallway_output(step_list, ref, exit_summary) ==
    LET valid_ref == valid_session_ref(ref)
    IN  [ room_id |-> "hallway",
          title |-> "Hallway",
          version |-> "0.2.0",
          purpose |-> "Deterministic multi-room session orchestrator",
          stone_alignment |-> contract.stone_alignment,
          sequence |-> sequence,
          mini_walk_supported |-> contract.mini_walk_supported,
          gate_profile |-> gate_profile,
          inputs |-> [ session_state_ref |-> valid_ref,
                       payloads |-> Dict(<<>>),
                       options |-> Dict(<<>>) ],
          outputs |-> [ contract_version |-> "0.2.0",
                        steps |-> step_list,
                        final_state_ref |-> valid_ref,
                        exit_summary |-> exit_summary ] ]

\* Mutant: the marker does not name the room.
mock_output_without_room(rid) == Dict(<< <<"dry_run", Bool(TRUE)>> >>)

\* The output run substitutes for a room's own (lines 114 and 128)
mock_output(rid) ==
    Dict(<< <<"dry_run", Bool(TRUE)>>, <<"room_id", Str(rid)>> >>)

\* What the run function of each room package does when it is called: it
\* returns a Legacy Stage Output or raises.
room_logic(rid) ==
    CASE rid = "entry_room" ->
             [ raises |-> FALSE,
               output |-> Dict(<< <<"status", Str("ok")>>,
                                  <<"session_state_ref", Str("sess-2")>> >>) ]
      [] rid = "walk_room" -> [ raises |-> TRUE, output |-> None ]
      [] rid = "exit_room" ->
             [ raises |-> FALSE,
               output |-> Dict(<< <<"next_action", Str("hold")>> >>) ]
      [] OTHER -> [ raises |-> FALSE, output |-> Dict(<< <<"status", Str("ok")>> >>) ]

\* _is_dry_run_mode
_is_dry_run_mode == TRUE

\* _run_room, lines 227-245.  run does not call it: the call at line 133 is
\* commented out.
_run_room(rid) ==
    IF _is_dry_run_mode
    THEN mock_output(rid)
    ELSE IF room_logic(rid).raises
         THEN Dict(<< <<"error", Str("Room execution failed")>>,
                      <<"room_id", Str(rid)>> >>)
         ELSE room_logic(rid).output

\* Mutant: the payload of a gate-denied step has no error field.
gate_failure_output_without_error(decisions) ==
    Dict(<< <<"gate_decisions", List(decisions)>> >>)

\* The payload of a gate-denied step (lines 84-87)
gate_failure_output(decisions) ==
    Dict(<< <<"error", Str("Gate chain evaluation failed")>>,
            <<"gate_decisions", List(decisions)>> >>)

\* Mutant: every iteration of the loop is for the first room.
room_id_of_first_room == rooms_to_run[1]

room_id == rooms_to_run[pos]

\* run, lines 50-63: options, the rooms to run, the initial locals; steps0 and hash0 are the values lines 61
\* and 62 bind steps and last_hash to
RunFrom(steps0, hash0) ==
    /\ pc = "call"
    /\ LET r == _determine_rooms_to_run(options.rooms_subset, options.mini_walk)
       IN  IF r.raised # ""
           THEN /\ pc' = "raised"
                /\ result' = r
                /\ UNCHANGED << rooms_to_run, pos, steps, last_hash, final_state_ref >>
           ELSE /\ pc' = "loop"
                /\ rooms_to_run' = r.rooms
                /\ pos' = 1
                /\ steps' = steps0
                /\ last_hash' = hash0
                /\ final_state_ref' = session_state_ref
                /\ UNCHANGED result
    /\ UNCHANGED << contract, session_state_ref, options, gate_decisions,
                    gates_passed, gate_calls, probe >>

\* Mutant: the first envelope of a call is chained to the last envelope of the
\* call before.
Run_chains_to_last_call == RunFrom(<< >>, last_hash)

\* Mutant: steps and last_hash are kept from one call of run to the next.
Run_keeps_steps == RunFrom(steps, last_hash)

Run == RunFrom(<< >>, None)

\* run, lines 66-77: the gate chain for the next room
EvaluateGatesWith(ready, ref) ==
    /\ ready
    /\ pos <= Len(rooms_to_run)
    /\ \E verdicts \in [1..Len(gate_profile.chain) -> BOOLEAN] :
          LET e == evaluate_gate_chain(gate_profile.chain, verdicts)
          IN  /\ gate_decisions' = e.decisions
              /\ gates_passed' = e.passed
              /\ gate_calls' = Append(gate_calls,
                                      [ room_id |-> room_id,
                                        session_state_ref |-> ref,
                                        verdicts |-> verdicts,
                                        decisions |-> e.decisions,
                                        passed |-> e.passed ])
    /\ pc' = "gated"
    /\ UNCHANGED << contract, session_state_ref, options, rooms_to_run, pos,
                    steps, last_hash, final_state_ref, result, probe >>

\* The gates are given the session_state_ref argument of run (line 70)
EvaluateGatesWhen(ready) == EvaluateGatesWith(ready, session_state_ref)

\* Mutant: the gates are given the reference the report will show.
EvaluateGates_sees_reported_ref ==
    EvaluateGatesWith(pc = "loop", valid_session_ref(final_state_ref))

\* Mutant: the gates of a room are evaluated again while its envelope is
\* still to be appended.
EvaluateGates_before_append == EvaluateGatesWhen(pc \in { "loop", "gated" })

\* The loop body starts (line 65) once the body of the room before has ended
EvaluateGates == EvaluateGatesWhen(pc = "loop")

\* run, lines 80-110: the gates denied; stop is the test of line 96 and
\* advance the number of rooms the continue of line 110 moves on by
GateDeclineStep(stop, advance) ==
    /\ pc = "gated"
    /\ ~gates_passed
    /\ LET decline_step ==
               upcast_v01_to_v02(room_id, gate_failure_output(gate_decisions),
                                 "decline", gate_decisions, last_hash, None, "0.1.0")
           steps1 == Append(steps, decline_step)
       IN  /\ steps' = steps1
           /\ last_hash' = decline_step.audit.step_hash
           /\ IF stop
              THEN /\ result' = _build_hallway_output(steps1, final_state_ref,
                          _build_exit_summary(FALSE,
                              [ reason |-> "gate_chain_failed",
                                message |-> "Gate chain evaluation failed for room "
                                            \o room_id,
                                details |-> Dict(<< <<"room_id", Str(room_id)>>,
                                                    <<"gate_decisions",
                                                      List(gate_decisions)>> >>) ],
                              steps1))
                   /\ pc' = "returned"
                   /\ UNCHANGED pos
              ELSE /\ pos' = pos + advance
                   /\ pc' = "loop"
                   /\ UNCHANGED result
    /\ UNCHANGED << contract, session_state_ref, options, rooms_to_run,
                    gate_decisions, gates_passed, final_state_ref, gate_calls,
                    probe >>

GateDeclineOn(stop) == GateDeclineStep(stop, 1)

\* Mutant: after a denial that does not end the walk, the same room is tried
\* again.
GateDecline_repeats_room == GateDeclineStep(options.stop_on_decline, 0)

\* Mutant: a denied gate chain never ends the walk.
GateDecline_never_stops == GateDeclineOn(FALSE)

\* Mutant: a denied gate chain always ends the walk.
GateDecline_always_stops == GateDeclineOn(TRUE)

GateDecline == GateDeclineOn(options.stop_on_decline)

\* run, lines 113-124: dry run; passed is the outcome of the test of line 80,
\* which comes first
DryRunStepWhen(passed) ==
    /\ pc = "gated"
    /\ passed
    /\ options.dry_run
    /\ LET step_result ==
               upcast_v01_to_v02(room_id, mock_output(room_id), "ok",
                                 gate_decisions, last_hash, None, "0.1.0")
       IN  /\ steps' = Append(steps, step_result)
           /\ last_hash' = step_result.audit.step_hash
    /\ pos' = pos + 1
    /\ pc' = "loop"
    /\ UNCHANGED << contract, session_state_ref, options, rooms_to_run,
                    gate_decisions, gates_passed, final_state_ref, gate_calls,
                    result, probe >>

\* Mutant: a dry run appends its marker whatever the gates decided.
DryRunStep_ignores_gates == DryRunStepWhen(TRUE)

DryRunStep == DryRunStepWhen(gates_passed)

\* run, lines 126-168: the room itself; its execution is commented out and the
\* mock output stands for its output
RoomStep ==
    /\ pc = "gated"
    /\ gates_passed
    /\ ~options.dry_run
    /\ LET room_output == mock_output(room_id)
           status == IF _is_room_decline(room_output) THEN "decline" ELSE "ok"
           step_result ==
               upcast_v01_to_v02(room_id, room_output, status, gate_decisions,
                                 last_hash, None, "0.1.0")
           steps1 == Append(steps, step_result)
           ref1 == IF HasKey(room_output, "session_state_ref")
                   THEN Get(room_output, "session_state_ref").s
                   ELSE final_state_ref
       IN  /\ steps' = steps1
           /\ last_hash' = step_result.audit.step_hash
           /\ final_state_ref' = ref1
           /\ IF status = "decline" /\ options.stop_on_decline
              THEN /\ result' = _build_hallway_output(steps1, ref1,
                          _build_exit_summary(FALSE,
                              [ reason |-> "room_declined",
                                message |-> "Room " \o room_id
                                            \o " declined to proceed",
                                details |-> Dict(<< <<"room_id", Str(room_id)>>,
                                                    <<"room_output", room_output>> >>) ],
                              steps1))
                   /\ pc' = "returned"
                   /\ UNCHANGED pos
              ELSE /\ pos' = pos + 1
                   /\ pc' = "loop"
                   /\ UNCHANGED result
    /\ UNCHANGED << contract, session_state_ref, options, rooms_to_run,
                    gate_decisions, gates_passed, gate_calls, probe >>

\* run, lines 173-180: every room was processed
Complete ==
    /\ pc = "loop"
    /\ pos > Len(rooms_to_run)
    /\ result' = _build_hallway_output(steps, final_state_ref,
                                      _build_exit_summary(TRUE, None, steps))
    /\ pc' = "returned"
    /\ UNCHANGED << contract, session_state_ref, options, rooms_to_run, pos,
                    gate_decisions, gates_passed, steps, last_hash,
                    final_state_ref, gate_calls, probe >>

Next ==
    \/ Run
    \/ EvaluateGates
    \/ GateDecline
    \/ DryRunStep
    \/ RoomStep
    \/ Complete

Spec == Init /\ [][Next]_vars

\* Options that select the whole sequence, a mini-walk, or a subset of one
\* room (valid or not)
SmallOptions ==
    [ stop_on_decline : BOOLEAN,
      dry_run : BOOLEAN,
      mini_walk : BOOLEAN,
      rooms_subset : SeqsUpTo(SubsetRooms, 1) ]

\* One call of run, for each way of selecting the rooms: the whole sequence, a
\* mini-walk, or a subset of one room (valid or not); a chain of one gate at
\* most
InitFair ==
    /\ contract \in { k \in Contracts : Len(k.gate_profile.chain) <= 1 }
    /\ session_state_ref \in WalkRefs
    /\ options \in SmallOptions
    /\ pc = "call"
    /\ probe = None
    /\ rooms_to_run = << >>
    /\ pos = 0
    /\ gate_decisions = << >>
    /\ gates_passed = FALSE
    /\ steps = << >>
    /\ last_hash = None
    /\ final_state_ref = Unbound
    /\ gate_calls = << >>
    /\ result = None

\* run is one sequential coroutine: while a step of it is possible, one is
\* taken (every step moves pc)
FairSpec == InitFair /\ [][Next]_vars /\ WF_pc(Next)

\* A second call of run on the same orchestrator, after the first returned or
\* raised.  run has no await (the one of line 133 is commented out), so two
\* coroutines of it never interleave: one runs to its return before the other
\* starts.  The locals of the first call are left as they were, to be bound
\* again by the second; gate_calls, the log of the call, starts again.  probe
\* keeps the arguments, the gate log and the result of the first call.
RunAgain ==
    /\ pc \in { "returned", "raised" }
    /\ probe = None
    /\ probe' = [ stage |-> "second", first |-> result, contract |-> contract,
                  session_state_ref |-> session_state_ref, options |-> options,
                  gate_calls |-> gate_calls ]
    /\ pc' = "call"
    /\ session_state_ref' \in { "sess-1", "sess-2" }
    /\ options' \in SmallOptions
    /\ result' = None
    /\ gate_calls' = << >>
    /\ UNCHANGED << contract, rooms_to_run, pos, gate_decisions, gates_passed,
                    steps, last_hash, final_state_ref >>

NextTwoRuns ==
    \/ Next
    \/ RunAgain

SpecTwoRuns == InitFair /\ [][NextTwoRuns]_vars

\* Contracts that differ in their descriptive metadata
Titles == { "Hallway", "Evening Walk" }

Purposes == { "Deterministic multi-room session orchestrator", "Guided walk" }

MetaContracts ==
    { [ sequence |-> SubSeq(RoomNames, 1, n),
        gate_profile |-> [chain |-> SubSeq(GateNames, 1, c), overrides |-> Dict(<<>>)],
        title |-> t,
        purpose |-> p,
        stone_alignment |-> a,
        mini_walk_supported |-> m ] :
      n \in 0..MaxSeq, c \in 0..MaxChain, t \in Titles, p \in Purposes,
      a \in { << >>, << "deterministic" >> }, m \in BOOLEAN }

\* One call of run for a contract of MetaContracts, over the whole sequence
InitMeta ==
    /\ contract \in MetaContracts
    /\ session_state_ref \in WalkRefs
    /\ options \in [ stop_on_decline : BOOLEAN, dry_run : BOOLEAN,
                     mini_walk : { FALSE }, rooms_subset : { << >> } ]
    /\ pc = "call"
    /\ probe = None
    /\ rooms_to_run = << >>
    /\ pos = 0
    /\ gate_decisions = << >>
    /\ gates_passed = FALSE
    /\ steps = << >>
    /\ last_hash = None
    /\ final_state_ref = Unbound
    /\ gate_calls = << >>
    /\ result = None

SpecMeta == InitMeta /\ [][Next]_vars

\* One call of run over the whole sequence, for each session reference a
\* caller can pass
InitRefs ==
    /\ contract \in Contracts
    /\ session_state_ref \in SessionRefs
    /\ options \in [ stop_on_decline : BOOLEAN, dry_run : BOOLEAN,
                     mini_walk : { FALSE }, rooms_subset : { << >> } ]
    /\ pc = "call"
    /\ probe = None
    /\ rooms_to_run = << >>
    /\ pos = 0
    /\ gate_decisions = << >>
    /\ gates_passed = FALSE
    /\ steps = << >>
    /\ last_hash = None
    /\ final_state_ref = Unbound
    /\ gate_calls = << >>
    /\ result = None

SpecRefs == InitRefs /\ [][Next]_vars

----------------------------------------------------------------------------
(* The upcaster called on its own: upcast_v01_to_v02 twice on one legacy   *)
(* output, and verify_roundtrip on the first envelope.                     *)

\* The key/value pairs the legacy outputs of the calls are built from
OutputPairs ==
    { <<"status", Str("decline")>>,
      <<"next_action", Str("hold")>>,
      <<"session_state_ref", Str("sess-2")>>,
      <<"gate_decisions", List(<< to_dict("coherence_gate", FALSE) >>)>> }

\* Legacy outputs: up to MaxKeys pairs with distinct keys, in every insertion
\* order
LegacyOutputs ==
    { Dict(p) : p \in { q \in SeqsUpTo(OutputPairs, MaxKeys) :
                          \A i, j \in 1..Len(q) : q[i][1] = q[j][1] => i = j } }

\* The other arguments of upcast_v01_to_v02
UpcastArgs ==
    [ room_id : { "entry_room", "walk_room" },
      status : { "ok", "decline" },
      gate_decisions : { << >>, << to_dict("coherence_gate", FALSE) >> },
      prev_hash : { None, sha256_hex("{}") },
      diagnostics_digest : { None, [prefix |-> "sha256:", hex |-> sha256_hex("[]")] },
      room_contract_version : { "0.1.0", "0.2.0" } ]

upcast_with(a, out) ==
    upcast_v01_to_v02(a.room_id, out, a.status, a.gate_decisions, a.prev_hash,
                      a.diagnostics_digest, a.room_contract_version)

\* No call of run is in progress
IdleRun ==
    /\ contract = [ sequence |-> << >>,
                    gate_profile |-> [chain |-> << >>, overrides |-> Dict(<<>>)],
                    stone_alignment |-> << >>,
                    mini_walk_supported |-> FALSE ]
    /\ session_state_ref = "sess-1"
    /\ options = [ stop_on_decline |-> TRUE, dry_run |-> FALSE,
                   mini_walk |-> FALSE, rooms_subset |-> << >> ]
    /\ pc = "idle"
    /\ rooms_to_run = << >>
    /\ pos = 0
    /\ gate_decisions = << >>
    /\ gates_passed = FALSE
    /\ steps = << >>
    /\ last_hash = None
    /\ final_state_ref = Unbound
    /\ gate_calls = << >>
    /\ result = None

InitUpcast ==
    /\ IdleRun
    /\ \E out \in LegacyOutputs :
          probe = [ stage |-> "input", out |-> out ]

run_vars ==
    << contract, session_state_ref, options, pc, rooms_to_run, pos,
       gate_decisions, gates_passed, steps, last_hash, final_state_ref,
       gate_calls, result >>

\* upcast_v01_to_v02(room_id, out, ...): the first call
Upcast ==
    /\ probe.stage = "input"
    /\ \E a \in UpcastArgs :
          probe' = [ stage |-> "upcast", out |-> probe.out,
                     args |-> a, env |-> upcast_with(a, probe.out) ]
    /\ UNCHANGED run_vars

\* upcast_v01_to_v02 on the same legacy output, with arguments of its own
UpcastAgain ==
    /\ probe.stage = "upcast"
    /\ \E a \in UpcastArgs :
          probe' = [ stage |-> "again", out |-> probe.out,
                     args |-> probe.args, env |-> probe.env,
                     args2 |-> a, env2 |-> upcast_with(a, probe.out) ]
    /\ UNCHANGED run_vars

\* The legacy outputs equal to out as mappings: the same pairs, inserted in
\* any order
Reorderings(out) ==
    { o \in LegacyOutputs : Range(o.pairs) = Range(out.pairs) }

\* upcast_v01_to_v02 with the arguments of the first call, on a legacy output
\* equal to the first as a mapping
UpcastReordered ==
    /\ probe.stage = "upcast"
    /\ \E o \in Reorderings(probe.out) :
          probe' = [ stage |-> "reordered", out |-> probe.out,
                     args |-> probe.args, env |-> probe.env,
                     out2 |-> o, env2 |-> upcast_with(probe.args, o) ]
    /\ UNCHANGED run_vars

\* verify_roundtrip(out, envelope) on the envelope of the first call
Roundtrip ==
    /\ probe.stage = "upcast"
    /\ probe' = [ stage |-> "verified", out |-> probe.out,
                  args |-> probe.args, env |-> probe.env,
                  back |-> downcast_v02_to_v01(probe.env),
                  roundtrip |-> verify_roundtrip(probe.out, probe.env) ]
    /\ UNCHANGED run_vars

NextUpcast ==
    \/ Upcast
    \/ UpcastAgain
    \/ UpcastReordered
    \/ Roundtrip

SpecUpcast == InitUpcast /\ [][NextUpcast]_vars

\* Stage outputs to classify: the fields _is_room_decline looks at, with values
\* on both sides of each test, and a field it ignores
ClassifyPairs ==
    { <<"error", Str("Room execution failed")>>,
      <<"error", None>>,
      <<"status", Str("decline")>>,
      <<"status", Str("ok")>>,
      <<"next_action", Str("hold")>>,
      <<"next_action", Str("later")>>,
      <<"next_action", Str("continue")>>,
      <<"room_id", Str("entry_room")>> }

ClassifyOutputs ==
    { Dict(p) : p \in { q \in SeqsUpTo(ClassifyPairs, MaxKeys) :
                          \A i, j \in 1..Len(q) : q[i][1] = q[j][1] => i = j } }

InitClassify ==
    /\ IdleRun
    /\ \E out \in ClassifyOutputs :
          probe = [ stage |-> "input", out |-> out ]

\* run, lines 134-137: the status of the envelope of a stage output
Classify ==
    /\ probe.stage = "input"
    /\ probe' = [ stage |-> "classified", out |-> probe.out,
                  status |-> IF _is_room_decline(probe.out)
                             THEN "decline" ELSE "ok" ]
    /\ UNCHANGED run_vars

SpecClassify == InitClassify /\ [][Classify]_vars

----------------------------------------------------------------------------
(* What the claims are stated with *)

\* The envelopes of the Run Report that run returned
ReportSteps == result.outputs.steps

ExitSummary == result.outputs.exit_summary

\* The gate chain denied at the k-th evaluation of the run: the verdict
\* evaluate_gate_chain returned for the k-th stage was a fail
Denied(k) == ~gate_calls[k].passed

\* Two dicts equal as mappings, whatever the insertion order of their keys
SameMapping(a, b) == Range(a.pairs) = Range(b.pairs)

RoomIds(step_list) == [i \in 1..Len(step_list) |-> step_list[i].room_id]

IsPrefix(a, b) == Len(a) <= Len(b) /\ a = SubSeq(b, 1, Len(a))

----------------------------------------------------------------------------
(* C1 *)

\* C1: in every Run Report, the first envelope's prev_hash is null and every
\* later envelope's prev_hash is the step_hash of the envelope before it,
\* decline envelopes included.
C1_ChainLinkage ==
    pc = "returned" =>
        \A i \in 1..Len(ReportSteps) :
            ReportSteps[i].audit.prev_hash =
                IF i = 1 THEN None ELSE ReportSteps[i - 1].audit.step_hash

\* A report of three envelopes whose second is a gate-denied decline.
C1_Witness ==
    /\ pc = "returned"
    /\ Len(ReportSteps) = 3
    /\ Denied(2)
    /\ ReportSteps[2].status = "decline"
    /\ ReportSteps[3].status = "ok"
    /\ ReportSteps[3].audit.prev_hash = ReportSteps[2].audit.step_hash

----------------------------------------------------------------------------
(* C2 *)

\* C2: with stop_on_decline set, a gate chain that denies at the k-th stage
\* is the last one evaluated, and the report run then returns has k envelopes,
\* the k-th the only decline and that of stage k, completed false and decline
\* reason "gate_chain_failed".
C2_DeclineShortCircuit ==
    \A k \in 1..Len(gate_calls) :
        (options.stop_on_decline /\ Denied(k)) =>
            /\ k = Len(gate_calls)
            /\ pc \in { "gated", "returned" }
            /\ pc = "returned" =>
                  /\ Len(ReportSteps) = k
                  /\ ReportSteps[k].status = "decline"
                  /\ ReportSteps[k].room_id = rooms_to_run[k]
                  /\ \A i \in 1..(k - 1) : ReportSteps[i].status # "decline"
                  /\ ExitSummary.completed = FALSE
                  /\ ExitSummary.decline # None
                  /\ ExitSummary.decline.reason = "gate_chain_failed"

\* The chain denied at the second of three selected stages and run returned.
C2_Witness ==
    /\ pc = "returned"
    /\ options.stop_on_decline
    /\ Len(rooms_to_run) = 3
    /\ Len(gate_calls) = 2
    /\ Denied(2)
    /\ Len(ReportSteps) = 2

----------------------------------------------------------------------------
(* C3 *)

\* C3: with stop_on_decline false, the report has one envelope for every
\* selected stage, in order, whatever stages declined.
C3_ContinueOnDecline ==
    (pc = "returned" /\ ~options.stop_on_decline) =>
        /\ Len(ReportSteps) = Len(rooms_to_run)
        /\ RoomIds(ReportSteps) = rooms_to_run

\* The first of three stages was denied and all three have an envelope.
C3_Witness ==
    /\ pc = "returned"
    /\ ~options.stop_on_decline
    /\ Len(rooms_to_run) = 3
    /\ Denied(1)
    /\ ReportSteps[1].status = "decline"
    /\ Len(ReportSteps) = 3

----------------------------------------------------------------------------
(* C4 *)

SubsetInvalid ==
    \E i \in 1..Len(options.rooms_subset) :
        \A j \in 1..Len(contract.sequence) :
            contract.sequence[j] # options.rooms_subset[i]

\* C4: when rooms_subset holds an identifier that is not in the canonical
\* sequence, run raises the configuration error with no gate evaluated and no
\* envelope produced, and returns no report.
C4_SubsetValidation ==
    SubsetInvalid =>
        /\ gate_calls = << >>
        /\ steps = << >>
        /\ pc \in { "call", "raised" }
        /\ pc = "raised" => result.raised = "ValueError"

\* run raised on a subset whose first entry is valid and whose second is not.
C4_Witness ==
    /\ pc = "raised"
    /\ Len(options.rooms_subset) = 2
    /\ options.rooms_subset[1] \in Range(contract.sequence)
    /\ options.rooms_subset[2] \notin Range(contract.sequence)

----------------------------------------------------------------------------
(* C5 *)

FirstAndLast ==
    IF Len(contract.sequence) >= 2
    THEN << contract.sequence[1], contract.sequence[Len(contract.sequence)] >>
    ELSE contract.sequence

\* C5: with mini_walk set and no rooms_subset, the stages gated and the
\* stages with an envelope are [first, last] of a sequence of two or more
\* rooms, in that order, and the whole sequence when it is shorter.
C5_MiniWalkSelection ==
    (options.mini_walk /\ options.rooms_subset = << >> /\ pc # "call") =>
        /\ rooms_to_run = FirstAndLast
        /\ IsPrefix([k \in 1..Len(gate_calls) |-> gate_calls[k].room_id], FirstAndLast)
        /\ IsPrefix(RoomIds(steps), FirstAndLast)
        /\ (pc = "returned" /\ ExitSummary.completed) =>
               RoomIds(ReportSteps) = FirstAndLast

\* A completed mini-walk over a sequence of three rooms.
C5_Witness ==
    /\ pc = "returned"
    /\ options.mini_walk
    /\ options.rooms_subset = << >>
    /\ Len(contract.sequence) = 3
    /\ ExitSummary.completed
    /\ RoomIds(ReportSteps) = << "entry_room", "exit_room" >>

----------------------------------------------------------------------------
(* C8 *)

\* C8: a dry run in which every gate chain passed returns one "ok" envelope
\* per selected stage with data {"dry_run": true, "room_id": <stage>}, as
\* many hashes in the audit chain, completed true and decline null.
C8_DryRunWalk ==
    (pc = "returned" /\ options.dry_run
        /\ \A k \in 1..Len(gate_calls) : ~Denied(k)) =>
        /\ Len(ReportSteps) = Len(rooms_to_run)
        /\ \A i \in 1..Len(ReportSteps) :
              /\ ReportSteps[i].status = "ok"
              /\ SameMapping(ReportSteps[i].data,
                             Dict(<< <<"room_id", Str(rooms_to_run[i])>>,
                                     <<"dry_run", Bool(TRUE)>> >>))
        /\ Len(ExitSummary.auditable_hash_chain) = Len(rooms_to_run)
        /\ ExitSummary.completed = TRUE
        /\ ExitSummary.decline = None

\* The dry run of the three-room sequence under an empty gate chain.
C8_Witness ==
    /\ pc = "returned"
    /\ options.dry_run
    /\ options.rooms_subset = << >>
    /\ ~options.mini_walk
    /\ contract.gate_profile.chain = << >>
    /\ contract.sequence = << "entry_room", "walk_room", "exit_room" >>
    /\ Len(ReportSteps) = 3
    /\ ExitSummary.completed

----------------------------------------------------------------------------
(* C6 *)

\* C6: two upcast calls on the same legacy output give the same
\* audit.step_hash, whatever their status, gate_decisions, prev_hash, room_id,
\* diagnostics_digest and room_contract_version.
C6_StepHashOfDataAlone ==
    probe.stage = "again" =>
        probe.env.audit.step_hash = probe.env2.audit.step_hash

\* Two calls on a two-key output that differ in every other argument.
C6_Witness ==
    /\ probe.stage = "again"
    /\ Len(probe.out.pairs) = 2
    /\ probe.args.status # probe.args2.status
    /\ probe.args.gate_decisions # probe.args2.gate_decisions
    /\ probe.args.prev_hash # probe.args2.prev_hash
    /\ probe.args.room_id # probe.args2.room_id
    /\ probe.args.diagnostics_digest # probe.args2.diagnostics_digest
    /\ probe.args.room_contract_version # probe.args2.room_contract_version
    /\ probe.env.audit.step_hash = probe.env2.audit.step_hash

----------------------------------------------------------------------------
(* C7 *)

\* C7: verify_roundtrip(v, upcast(..., v, ...)) is true for every legacy
\* output v and every choice of the other arguments: the downcast of the
\* envelope serialises canonically to what v serialises to.
C7_RoundTrip ==
    probe.stage = "verified" =>
        /\ probe.roundtrip = TRUE
        /\ canonical_json(probe.back) = canonical_json(probe.out)

\* The round trip of an output with a nested list, upcast as a decline.
C7_Witness ==
    /\ probe.stage = "verified"
    /\ Len(probe.out.pairs) = 2
    /\ HasKey(probe.out, "gate_decisions")
    /\ probe.args.status = "decline"
    /\ probe.args.prev_hash # None
    /\ probe.roundtrip = TRUE

----------------------------------------------------------------------------
(* C9 *)

\* C9: when the gate chain passes for a stage and dry_run is not set, the
\* stage's business logic is executed and the data of the stage's envelope is
\* the Legacy Stage Output that execution returned, not a dry-run marker.
C9_RealStageExecution ==
    \A i \in 1..Len(steps) :
        (~options.dry_run /\ ~Denied(i) /\ ~room_logic(steps[i].room_id).raises) =>
            /\ SameMapping(steps[i].data, room_logic(steps[i].room_id).output)
            /\ ~HasKey(steps[i].data, "dry_run")

----------------------------------------------------------------------------
(* C10 *)

\* C10: when the executor of a stage raises, run does not raise: it appends an
\* envelope for the stage with status "decline" whose data has an error field.
C10_StageFailureAbsorbed ==
    \A i \in 1..Len(steps) :
        (~options.dry_run /\ ~Denied(i) /\ room_logic(steps[i].room_id).raises) =>
            /\ steps[i].status = "decline"
            /\ HasKey(steps[i].data, "error")
            /\ pc # "raised"

----------------------------------------------------------------------------
(* C11 *)

\* A decline that ends the walk: stop_on_decline is set and an envelope of the
\* report is a decline.
TerminatingDecline ==
    /\ options.stop_on_decline
    /\ \E i \in 1..Len(ReportSteps) : ReportSteps[i].status = "decline"

\* C11: the report is completed, with a null decline and an envelope for
\* every selected stage, exactly when no decline ended the walk (declines
\* under stop_on_decline false included); otherwise completed is false and
\* decline is an object.
C11_ExitSummaryCompletion ==
    pc = "returned" =>
        /\ ExitSummary.completed = ~TerminatingDecline
        /\ ExitSummary.completed =>
              /\ ExitSummary.decline = None
              /\ RoomIds(ReportSteps) = rooms_to_run
        /\ ~ExitSummary.completed =>
              /\ ExitSummary.decline # None
              /\ ExitSummary.decline.reason \in { "gate_chain_failed", "room_declined" }

\* A completed walk of two stages, both denied, under stop_on_decline false.
C11_Witness ==
    /\ pc = "returned"
    /\ ~options.stop_on_decline
    /\ Len(ReportSteps) = 2
    /\ ReportSteps[1].status = "decline"
    /\ ReportSteps[2].status = "decline"
    /\ ExitSummary.completed
    /\ ExitSummary.decline = None

----------------------------------------------------------------------------
(* C12 *)

\* C12: in every report, completed or not, auditable_hash_chain has one
\* element per envelope of outputs.steps, the i-th being the i-th envelope's
\* audit.step_hash; decline envelopes are included.
C12_AuditChainProjection ==
    pc = "returned" =>
        /\ Len(ExitSummary.auditable_hash_chain) = Len(ReportSteps)
        /\ \A i \in 1..Len(ReportSteps) :
              ExitSummary.auditable_hash_chain[i] = ReportSteps[i].audit.step_hash

\* An early exit on the denied third stage: two ok hashes and the decline's.
C12_Witness ==
    /\ pc = "returned"
    /\ ~ExitSummary.completed
    /\ Len(ReportSteps) = 3
    /\ ReportSteps[3].status = "decline"
    /\ Len(ExitSummary.auditable_hash_chain) = 3
    /\ ExitSummary.auditable_hash_chain[3] = ReportSteps[3].audit.step_hash

----------------------------------------------------------------------------
(* C13 *)

\* C13: two legacy outputs that are equal as mappings get the same step_hash,
\* whatever the order their keys were inserted in; in particular the hash of
\* one output computed twice is the same.
C13_HashDeterminism ==
    probe.stage = "reordered" =>
        /\ SameMapping(probe.out, probe.out2)
        /\ probe.env2.audit.step_hash = probe.env.audit.step_hash

\* Two keys inserted in opposite orders, one hash.
C13_Witness ==
    /\ probe.stage = "reordered"
    /\ Len(probe.out.pairs) = 2
    /\ probe.out2.pairs[1] = probe.out.pairs[2]
    /\ probe.out2.pairs[2] = probe.out.pairs[1]
    /\ probe.env2.audit.step_hash = probe.env.audit.step_hash

----------------------------------------------------------------------------
(* C14 *)

\* C14: each evaluation of the gate chain passes exactly when every gate of
\* the chain allowed, and its decision list has one decision per gate of the
\* chain, in chain order, also after a gate that denied.
C14_GateChainAggregation ==
    \A k \in 1..Len(gate_calls) :
        LET call == gate_calls[k]
            chain == gate_profile.chain
        IN  /\ call.passed = (\A i \in 1..Len(chain) : call.verdicts[i])
            /\ Len(call.decisions) = Len(chain)
            /\ \A i \in 1..Len(chain) :
                  /\ Get(call.decisions[i], "gate") = Str(chain[i])
                  /\ Get(call.decisions[i], "allow") = Bool(call.verdicts[i])
            /\ k <= Len(steps) => steps[k].gate_decisions = call.decisions

\* A chain of two gates whose first gate denied and whose second allowed: the
\* chain fails and the envelope carries both decisions.
C14_Witness ==
    /\ Len(gate_profile.chain) = 2
    /\ Len(steps) >= 1
    /\ ~gate_calls[1].verdicts[1]
    /\ gate_calls[1].verdicts[2]
    /\ ~gate_calls[1].passed
    /\ Len(steps[1].gate_decisions) = 2
    /\ Get(steps[1].gate_decisions[2], "allow") = Bool(TRUE)

----------------------------------------------------------------------------
(* C15 *)

\* C15: the report's title, purpose, stone_alignment and mini_walk_supported
\* are the values of the contract the orchestrator was built with.
C15_MetadataEcho ==
    pc = "returned" =>
        /\ result.title = contract.title
        /\ result.purpose = contract.purpose
        /\ result.stone_alignment = contract.stone_alignment
        /\ result.mini_walk_supported = contract.mini_walk_supported

----------------------------------------------------------------------------
(* C16 *)

\* C16: when the gates pass for a stage, dry_run is not set, the output of the
\* stage's business logic is classified as a decline and stop_on_decline is
\* set, the stage's envelope is a decline, it is the last envelope, and the
\* walk has returned with completed false and decline.reason "room_declined".
C16_RoomDeclineTermination ==
    \A i \in 1..Len(steps) :
        ( /\ ~options.dry_run
          /\ options.stop_on_decline
          /\ ~Denied(i)
          /\ ~room_logic(steps[i].room_id).raises
          /\ _is_room_decline(room_logic(steps[i].room_id).output) ) =>
            /\ steps[i].status = "decline"
            /\ i = Len(steps)
            /\ pc = "returned"
            /\ ~ExitSummary.completed
            /\ ExitSummary.decline.reason = "room_declined"

----------------------------------------------------------------------------
(* C17 *)

\* C17: a stage output is given status "decline" exactly when it has an error
\* field (whatever its value), or its status is "decline", or its next_action
\* is "hold" or "later"; every other output is given status "ok".
C17_DeclineClassification ==
    probe.stage = "classified" =>
        LET fields == Range(probe.out.pairs)
            declines ==
                \/ \E f \in fields : f[1] = "error"
                \/ <<"status", Str("decline")>> \in fields
                \/ <<"next_action", Str("hold")>> \in fields
                \/ <<"next_action", Str("later")>> \in fields
        IN  /\ declines => probe.status = "decline"
            /\ ~declines => probe.status = "ok"

\* An output whose status is "ok" and whose next_action is "later": a decline.
C17_Witness ==
    /\ probe.stage = "classified"
    /\ Range(probe.out.pairs) = { <<"status", Str("ok")>>,
                                  <<"next_action", Str("later")>> }
    /\ probe.status = "decline"

----------------------------------------------------------------------------
(* C18 *)

\* C18: in a dry run the gate chain is evaluated for every stage that gets an
\* envelope; a stage whose chain denied gets a decline envelope and never the
\* dry-run marker, and under stop_on_decline the walk ends there with
\* decline.reason "gate_chain_failed".
C18_DryRunKeepsGates ==
    options.dry_run =>
        /\ Len(steps) <= Len(gate_calls)
        /\ \A i \in 1..Len(steps) :
              /\ gate_calls[i].room_id = steps[i].room_id
              /\ Denied(i) =>
                    /\ steps[i].status = "decline"
                    /\ ~HasKey(steps[i].data, "dry_run")
              /\ (Denied(i) /\ options.stop_on_decline) =>
                    /\ i = Len(steps)
                    /\ pc = "returned"
                    /\ ~ExitSummary.completed
                    /\ ExitSummary.decline.reason = "gate_chain_failed"

\* A dry run under stop_on_decline whose second stage was denied.
C18_Witness ==
    /\ options.dry_run
    /\ options.stop_on_decline
    /\ pc = "returned"
    /\ Len(steps) = 2
    /\ HasKey(steps[1].data, "dry_run")
    /\ Denied(2)
    /\ steps[2].status = "decline"
    /\ ExitSummary.decline.reason = "gate_chain_failed"

----------------------------------------------------------------------------
(* C19 *)

\* C19: each evaluation of the gate chain is followed by at most one envelope,
\* for the stage it was made for; when the chain denied, that envelope has
\* status "decline", carries the decisions of that evaluation and data with an
\* error field (never a stage's output), and the chain pointer moves to its
\* step_hash: the next envelope's prev_hash, or last_hash if it is the last.
C19_GateDeniedStage ==
    /\ Len(steps) = IF pc = "gated" THEN Len(gate_calls) - 1 ELSE Len(gate_calls)
    /\ \A i \in 1..Len(steps) :
          /\ steps[i].room_id = gate_calls[i].room_id
          /\ Denied(i) =>
                /\ steps[i].status = "decline"
                /\ steps[i].gate_decisions = gate_calls[i].decisions
                /\ HasKey(steps[i].data, "error")
                /\ ~HasKey(steps[i].data, "dry_run")
                /\ IF i = Len(steps)
                   THEN last_hash = steps[i].audit.step_hash
                   ELSE steps[i + 1].audit.prev_hash = steps[i].audit.step_hash

\* Under stop_on_decline false, a denied first stage followed by a second
\* stage that links to its decline envelope.
C19_Witness ==
    /\ ~options.stop_on_decline
    /\ Len(steps) = 2
    /\ Denied(1)
    /\ ~Denied(2)
    /\ steps[1].status = "decline"
    /\ HasKey(steps[1].data, "error")
    /\ steps[2].status = "ok"
    /\ steps[2].audit.prev_hash = steps[1].audit.step_hash

----------------------------------------------------------------------------
(* C20 *)

\* C20: in every envelope upcast returns, decline is null exactly when status
\* is not "decline"; when status is "decline", decline is an object with the
\* fields reason, message and details.
C20_DeclineBlockConsistency ==
    probe.stage \in { "upcast", "again", "reordered", "verified" } =>
        /\ probe.env.status = probe.args.status
        /\ (probe.env.decline = None) = (probe.env.status # "decline")
        /\ probe.env.status = "decline" =>
              DOMAIN probe.env.decline = { "reason", "message", "details" }

\* An envelope upcast with status "decline" and its populated decline object.
C20_Witness ==
    /\ probe.stage = "upcast"
    /\ probe.args.status = "decline"
    /\ probe.env.status = "decline"
    /\ probe.env.decline # None
    /\ probe.env.decline.reason = "gate_denied_or_room_decline"

----------------------------------------------------------------------------
(* C21 *)

\* C21: when rooms_subset is not empty and each of its entries is in the
\* canonical sequence, the run raises nothing and the stages it processes are
\* the entries of rooms_subset in the order given, whether or not mini_walk
\* is set: the gate chain is evaluated for them in that order, and a
\* completed report has their envelopes in that order.
C21_ExplicitSubsetSelection ==
    ( /\ options.rooms_subset # << >>
      /\ Range(options.rooms_subset) \subseteq Range(sequence)
      /\ pc # "call" ) =>
        /\ pc # "raised"
        /\ rooms_to_run = options.rooms_subset
        /\ IsPrefix([k \in 1..Len(gate_calls) |-> gate_calls[k].room_id],
                    options.rooms_subset)
        /\ (pc = "returned" /\ ExitSummary.completed) =>
              RoomIds(ReportSteps) = options.rooms_subset

\* A completed run of the subset (second room, first room) with mini_walk set.
C21_Witness ==
    /\ options.rooms_subset = << RoomNames[2], RoomNames[1] >>
    /\ options.mini_walk
    /\ Len(sequence) = 3
    /\ pc = "returned"
    /\ ExitSummary.completed
    /\ RoomIds(ReportSteps) = << RoomNames[2], RoomNames[1] >>

----------------------------------------------------------------------------
(* C22 *)

\* The envelopes of the report whose stage was executed (the gates passed, not
\* a dry run) and whose business logic returned an output carrying a
\* session_state_ref
RefCarriers ==
    { i \in 1..Len(ReportSteps) :
        /\ ~options.dry_run
        /\ ~Denied(i)
        /\ ~room_logic(ReportSteps[i].room_id).raises
        /\ HasKey(room_logic(ReportSteps[i].room_id).output, "session_state_ref") }

\* C22: outputs.final_state_ref of the report is the reference carried by the
\* last stage output that carried one, and the reference passed to run when
\* no stage output carried one.
C22_SessionRefAdoption ==
    pc = "returned" =>
        result.outputs.final_state_ref =
            IF RefCarriers = { }
            THEN session_state_ref
            ELSE LET last == CHOOSE i \in RefCarriers : \A j \in RefCarriers : j <= i
                 IN  Get(room_logic(ReportSteps[last].room_id).output,
                         "session_state_ref").s

----------------------------------------------------------------------------
(* C23 *)

\* A reference that is empty or only whitespace
Blank(ref) == ref \in { "", "  " }

\* C23, as stated: the reference the report shows is never blank; it is
\* "invalid-session-ref" exactly when the run's final reference is blank, and
\* the final reference unchanged otherwise.
C23_SentinelExactlyWhenBlank ==
    pc = "returned" =>
        /\ ~Blank(result.outputs.final_state_ref)
        /\ (result.outputs.final_state_ref = "invalid-session-ref")
              = Blank(final_state_ref)
        /\ ~Blank(final_state_ref) =>
              result.outputs.final_state_ref = final_state_ref

\* C23, amended: the reference the report shows (as outputs.final_state_ref
\* and as inputs.session_state_ref) is never blank; it is
\* "invalid-session-ref" when the run's final reference is blank and the final
\* reference unchanged, surrounding whitespace included, otherwise.
C23_SessionRefSentinel ==
    pc = "returned" =>
        /\ ~Blank(result.outputs.final_state_ref)
        /\ result.inputs.session_state_ref = result.outputs.final_state_ref
        /\ Blank(final_state_ref) =>
              result.outputs.final_state_ref = "invalid-session-ref"
        /\ ~Blank(final_state_ref) =>
              result.outputs.final_state_ref = final_state_ref

\* A run called with a whitespace-only reference reports the sentinel.
C23_Witness ==
    /\ pc = "returned"
    /\ session_state_ref = "  "
    /\ final_state_ref = "  "
    /\ result.outputs.final_state_ref = "invalid-session-ref"

----------------------------------------------------------------------------
(* C24 *)

\* C24: a run whose stage selection passed validation ends with a report;
\* it evaluates the gates for at most as many stages as were selected; a
\* result exists exactly once the run has returned (or raised), and a report
\* returned is not replaced.
C24_TerminatesWithOneReport ==
    /\ [](Len(gate_calls) <= Len(rooms_to_run))
    /\ []((result # None) = (pc \in { "returned", "raised" }))
    /\ [][result # None => result' = result]_pc
    /\ (pc = "loop") ~> (pc = "returned")

\* A run that returned its report after evaluating the gates for all three
\* of its stages.
C24_Witness ==
    /\ pc = "returned"
    /\ Len(rooms_to_run) = 3
    /\ Len(gate_calls) = 3
    /\ result # None
    /\ Len(ReportSteps) = 3

----------------------------------------------------------------------------
(* C25 *)

\* C25: a gate evaluation starts only when every stage evaluated before it
\* has its envelope and the chain pointer is the step_hash of the last
\* envelope; and an envelope is appended only for the one stage whose gates
\* were evaluated last, with the chain pointer set to its step_hash in the
\* same step.
C25_StrictlySequential ==
    [][ /\ Len(gate_calls') > Len(gate_calls) =>
              /\ Len(gate_calls') = Len(gate_calls) + 1
              /\ Len(steps) = Len(gate_calls)
              /\ steps' = steps
              /\ Len(steps) > 0 => last_hash = steps[Len(steps)].audit.step_hash
        /\ Len(steps') > Len(steps) =>
              /\ Len(steps') = Len(steps) + 1
              /\ Len(gate_calls) = Len(steps) + 1
              /\ gate_calls' = gate_calls
              /\ steps'[Len(steps')].room_id = gate_calls[Len(gate_calls)].room_id
              /\ last_hash' = steps'[Len(steps')].audit.step_hash ]_vars

\* The gates of the second stage were evaluated with the first stage's
\* envelope appended and the chain pointer on its step_hash.
C25_Witness ==
    /\ pc = "gated"
    /\ Len(gate_calls) = 2
    /\ Len(steps) = 1
    /\ steps[1].room_id = gate_calls[1].room_id
    /\ last_hash = steps[1].audit.step_hash

----------------------------------------------------------------------------
(* C26 *)

\* The envelopes a call of run returns on its own for the first k stages of
\* its selection, the gates having decided as gate_calls records
RECURSIVE AloneSteps(_)
AloneSteps(k) ==
    IF k = 0
    THEN << >>
    ELSE LET before == AloneSteps(k - 1)
             prev == IF k = 1 THEN None ELSE before[k - 1].audit.step_hash
             call == gate_calls[k]
         IN  Append(before,
                    IF call.passed
                    THEN upcast_v01_to_v02(call.room_id, mock_output(call.room_id),
                                           "ok", call.decisions, prev, None, "0.1.0")
                    ELSE upcast_v01_to_v02(call.room_id,
                                           gate_failure_output(call.decisions),
                                           "decline", call.decisions, prev, None,
                                           "0.1.0"))

\* C26: a call of run on an orchestrator that has already served a call
\* returns the report it would return alone: its stages are those its own
\* options select, its envelopes start a chain of their own, its references
\* are its own; and the orchestrator's contract (sequence, gate profile) is
\* as it was before the first call.
C26_RunIsolation ==
    /\ probe # None => contract = probe.contract
    /\ pc = "returned" =>
          /\ rooms_to_run =
                 _determine_rooms_to_run(options.rooms_subset, options.mini_walk).rooms
          /\ IsPrefix([k \in 1..Len(gate_calls) |-> gate_calls[k].room_id],
                      rooms_to_run)
          /\ ReportSteps = AloneSteps(Len(gate_calls))
          /\ ExitSummary.auditable_hash_chain = build_audit_chain(ReportSteps)
          /\ ExitSummary.completed = ~TerminatingDecline
          /\ result.outputs.final_state_ref = valid_session_ref(session_state_ref)
          /\ result.inputs.session_state_ref = valid_session_ref(session_state_ref)

\* A second call, for another session, returned a report of one envelope after
\* a first call whose report had two.
C26_Witness ==
    /\ probe # None
    /\ pc = "returned"
    /\ "outputs" \in DOMAIN probe.first
    /\ probe.first.outputs.final_state_ref = "sess-1"
    /\ Len(probe.first.outputs.steps) = 2
    /\ session_state_ref = "sess-2"
    /\ Len(ReportSteps) = 1
    /\ ReportSteps[1].audit.prev_hash = None
    /\ result.outputs.final_state_ref = "sess-2"

----------------------------------------------------------------------------
(* C27 *)

\* C27: a step of a run leaves the envelopes already in steps as they are and
\* appends at most one; the report that is assembled carries them unchanged.
C27_AppendOnlyEnvelopes ==
    [][ /\ IsPrefix(steps, steps')
        /\ Len(steps') <= Len(steps) + 1
        /\ (pc' = "returned" /\ pc # "returned") =>
              result'.outputs.steps = steps' ]_vars

\* A report of three envelopes, each as it was appended.
C27_Witness ==
    /\ pc = "returned"
    /\ Len(steps) = 3
    /\ ReportSteps = steps
    /\ steps[2].audit.prev_hash = steps[1].audit.step_hash
    /\ steps[3].audit.prev_hash = steps[2].audit.step_hash

----------------------------------------------------------------------------
(* C28 *)

\* C28: at every point of a run the room ids of the envelopes appended so far
\* are the first rooms of the selected list, in its order, one envelope per
\* room; the same holds of the report, whose envelopes are those of the whole
\* selected list when exit_summary.completed is true.
C28_EnvelopeOrderFollowsSelection ==
    /\ pc \in { "loop", "gated", "returned" } =>
          IsPrefix(RoomIds(steps), rooms_to_run)
    /\ pc \in { "loop", "gated" } => Len(steps) = pos - 1
    /\ pc = "returned" =>
          /\ IsPrefix(RoomIds(ReportSteps), rooms_to_run)
          /\ ExitSummary.completed => RoomIds(ReportSteps) = rooms_to_run

\* In the middle of a walk of three rooms: two envelopes, for the first two.
C28_Witness ==
    /\ pc = "gated"
    /\ Len(rooms_to_run) = 3
    /\ pos = 3
    /\ RoomIds(steps) = << rooms_to_run[1], rooms_to_run[2] >>
    /\ rooms_to_run[1] # rooms_to_run[2]

----------------------------------------------------------------------------
(* C29 *)

\* C29: in a report of a run with stop_on_decline set, every envelope but the
\* last has status "ok", and completed is false exactly when there is a last
\* envelope and its status is "decline".
C29_SingleTrailingDecline ==
    (pc = "returned" /\ options.stop_on_decline) =>
        /\ \A i \in 1..(Len(ReportSteps) - 1) : ReportSteps[i].status = "ok"
        /\ (~ExitSummary.completed)
              = ( /\ Len(ReportSteps) > 0
                  /\ ReportSteps[Len(ReportSteps)].status = "decline" )

\* Two ok envelopes and a decline that ended the walk.
C29_Witness ==
    /\ pc = "returned"
    /\ options.stop_on_decline
    /\ Len(ReportSteps) = 3
    /\ ReportSteps[1].status = "ok"
    /\ ReportSteps[2].status = "ok"
    /\ ReportSteps[3].status = "decline"
    /\ ~ExitSummary.completed

----------------------------------------------------------------------------
(* C30 *)

----------------------------------------------------------------------------
(* C31 *)

\* C31: in every report, inputs.session_state_ref equals
\* outputs.final_state_ref, both being the reference the report shows for the
\* run's final reference and not the reference as it was passed to run.
C31_InputAndFinalRefCoincide ==
    pc = "returned" =>
        /\ result.inputs.session_state_ref = result.outputs.final_state_ref
        /\ result.inputs.session_state_ref = valid_session_ref(final_state_ref)

\* A run called with the empty reference: the inputs block of its report shows
\* the sentinel, as outputs.final_state_ref does, not the empty reference.
C31_Witness ==
    /\ pc = "returned"
    /\ session_state_ref = ""
    /\ result.inputs.session_state_ref = "invalid-session-ref"
    /\ result.outputs.final_state_ref = "invalid-session-ref"
    /\ result.inputs.session_state_ref # session_state_ref

----------------------------------------------------------------------------
(* C32 *)

\* The second call was made with the arguments of the first
SameArguments ==
    /\ session_state_ref = probe.session_state_ref
    /\ options = probe.options

\* The gates decided in the second call as they did in the first, wherever
\* they were asked about the same room and session reference
GatesAgree ==
    \A k \in 1..Len(gate_calls), j \in 1..Len(probe.gate_calls) :
        ( /\ gate_calls[k].room_id = probe.gate_calls[j].room_id
          /\ gate_calls[k].session_state_ref = probe.gate_calls[j].session_state_ref ) =>
            gate_calls[k].verdicts = probe.gate_calls[j].verdicts

\* C32: a second call of run with the contract, session reference and options
\* of the first, whose gates decide as in the first, ends as the first did:
\* with the same report (envelopes, step and prev hashes, exit summary), or
\* with the same error.
C32_RunDeterminism ==
    ( /\ probe # None
      /\ pc \in { "returned", "raised" }
      /\ SameArguments
      /\ GatesAgree ) =>
        result = probe.first

\* Two calls with the same arguments and gate decisions, each returning the
\* same report of an ok envelope and a decline envelope.
C32_Witness ==
    /\ probe # None
    /\ pc = "returned"
    /\ SameArguments
    /\ GatesAgree
    /\ Len(ReportSteps) = 2
    /\ ReportSteps[1].status = "ok"
    /\ ReportSteps[2].status = "decline"
    /\ ReportSteps[2].audit.prev_hash = ReportSteps[1].audit.step_hash
    /\ result = probe.first

====
